---- MODULE Spec2Model ----
(***************************************************************************)
(* NexGen Logistics dashboard (src/app.py): load_data, show_alerts and the *)
(* control flow of main, as a state machine over one script run.           *)
(*                                                                         *)
(* Numbers.  Every numeric cell is a pandas float: a pair <<n, d>> that    *)
(* stands for n/d when d > 0, for +inf / -inf when it is <<1,0>> /         *)
(* <<-1,0>>, and for NaN (a null cell) when it is <<0,0>>.  Text cells are *)
(* strings, the null text cell is the string "NaN".  Order_ID, Route and   *)
(* Issue_Category are codes (naturals): the code order is the sort order   *)
(* of the names, and code 0 is the null cell.                              *)
(***************************************************************************)
EXTENDS Integers, Sequences, FiniteSets, TLC

\* ------------------------------------------------------------------ bounds
\* Faults per kind (missing files, unparsable date columns, tables without
\* the join key) in the fault scenarios.
MaxFaults == 1
\* Orders, and rows of each joined table, in the join scenarios.
MaxJoinOrders == 2
MaxJoinRows == 2
\* Warehouse rows and the largest stock count in the stock scenarios.
MaxStockRows == 1
MaxStock == 13
\* Warehouse rows and orders in the alert-cap scenarios.
MaxCapRows == 5
MaxCapOrders == 4
\* Orders and the largest actual delivery time in the delay scenarios.
MaxDelayOrders == 2
MaxDays == 9
\* Orders in the route scenarios.
MaxRouteOrders == 4
\* Orders and feedback rows in the rating scenarios.
MaxRatingOrders == 2
MaxFeedback == 3
\* Orders in the filter scenarios.
MaxFilterOrders == 2
\* Orders in the cost-ratio scenarios.
MaxRatioOrders == 2
\* Orders and feedback rows in the issue-category scenarios.
MaxIssueOrders == 2
MaxIssueRows == 3
\* Vehicles in the fleet scenarios.
MaxVehicles == 2

\* ----------------------------------------------------------------- numbers
NaN == <<0, 0>>
PosInf == <<1, 0>>
NegInf == <<-1, 0>>
F(n) == <<n, 1>>

IsNaN(x) == x = NaN

Abs(n) == IF n < 0 THEN -n ELSE n
Sign(n) == IF n > 0 THEN 1 ELSE IF n < 0 THEN -1 ELSE 0

RECURSIVE Gcd(_, _)
Gcd(a, b) == IF b = 0 THEN a ELSE Gcd(b, a % b)

\* The canonical pair of n/d (d may be 0: the infinities and NaN).
Norm(n, d) ==
    IF d = 0 THEN <<Sign(n), 0>>
    ELSE LET s == IF d < 0 THEN -1 ELSE 1
             g == Gcd(Abs(n), Abs(d))
         IN <<(s * n) \div g, (s * d) \div g>>

\* IEEE comparisons: any comparison with NaN is false.
Less(a, b) ==
    IF IsNaN(a) \/ IsNaN(b) THEN FALSE
    ELSE IF a[2] = 0 /\ b[2] = 0 THEN a[1] < b[1]
    ELSE a[1] * b[2] < b[1] * a[2]

Leq(a, b) == ~IsNaN(a) /\ ~IsNaN(b) /\ ~Less(b, a)

\* a - b on finite operands (the cells of the input tables are finite or
\* NaN), a + b and a / b; NaN propagates, x/0 is +-inf, 0/0 and inf - inf
\* are NaN.
Sub(a, b) ==
    IF IsNaN(a) \/ IsNaN(b) THEN NaN
    ELSE Norm(a[1] * b[2] - b[1] * a[2], a[2] * b[2])

Add(a, b) ==
    IF IsNaN(a) \/ IsNaN(b) THEN NaN
    ELSE IF a[2] = 0 /\ b[2] = 0 THEN (IF a = b THEN a ELSE NaN)
    ELSE Norm(a[1] * b[2] + b[1] * a[2], a[2] * b[2])

Div(a, b) ==
    IF IsNaN(a) \/ IsNaN(b) THEN NaN
    ELSE Norm(a[1] * b[2], a[2] * b[1])

\* ------------------------------------------------------------- sequences
SeqsUpTo(S, n) == UNION {[1..k -> S] : k \in 0..n}

PdHead(s, n) == SubSeq(s, 1, IF Len(s) < n THEN Len(s) ELSE n)

RECURSIVE SumSkipNaN(_)
SumSkipNaN(s) ==
    IF s = <<>> THEN F(0)
    ELSE IF IsNaN(Head(s)) THEN SumSkipNaN(Tail(s))
    ELSE Add(Head(s), SumSkipNaN(Tail(s)))

CountNotNaN(s) == Len(SelectSeq(s, LAMBDA x : ~IsNaN(x)))

\* Series.mean(): the mean of the non-null values, NaN when there is none.
Mean(s) == Div(SumSkipNaN(s), F(CountNotNaN(s)))

Column(rows, f) == [i \in 1..Len(rows) |-> rows[i][f]]

\* The distinct values of a sequence, in order of first appearance
\* (Series.unique()).
RECURSIVE Unique(_)
Unique(s) ==
    IF s = <<>> THEN <<>>
    ELSE LET rest == Unique(SubSeq(s, 1, Len(s) - 1))
             last == s[Len(s)]
         IN IF \E i \in 1..Len(rest) : rest[i] = last THEN rest
            ELSE Append(rest, last)

\* The elements of a finite set of integers, ascending.
RECURSIVE Sorted(_)
Sorted(S) ==
    IF S = {} THEN <<>>
    ELSE LET m == CHOOSE x \in S : \A y \in S : x <= y
         IN <<m>> \o Sorted(S \ {m})

\* ------------------------------------------------------------------ pandas
\* pd.merge(left, right, on='Order_ID', how='left'): every left row, in
\* order, once per right row with its key (in the right table's order), or
\* once with null right columns when no right row has its key.
RECURSIVE LeftMerge(_, _, _)
LeftMerge(left, right, nulls) ==
    IF left = <<>> THEN <<>>
    ELSE LET l == Head(left)
             m == SelectSeq(right, LAMBDA r : r.Order_ID = l.Order_ID)
         IN (IF m = <<>> THEN <<l @@ nulls>>
             ELSE [i \in 1..Len(m) |-> l @@ m[i]])
            \o LeftMerge(Tail(left), right, nulls)

\* pd.cut with right=False: label i is the interval [bins[i], bins[i+1]).
PdCut_LeftClosed(x, bins, labels) ==
    LET hit == {i \in 1..Len(labels) : Leq(bins[i], x) /\ Less(x, bins[i + 1])}
    IN IF hit = {} THEN "NaN" ELSE labels[CHOOSE i \in hit : TRUE]

\* pd.cut(x, bins, labels) with the default right=True, include_lowest=False:
\* label i is the interval (bins[i], bins[i+1]]; a value in no interval, and
\* NaN, get the null label.
PdCut(x, bins, labels) ==
    LET hit == {i \in 1..Len(labels) : Less(bins[i], x) /\ Leq(x, bins[i + 1])}
    IN IF hit = {} THEN "NaN" ELSE labels[CHOOSE i \in hit : TRUE]

DelayBins == <<NegInf, F(0), F(2), F(5), PosInf>>
DelayLabels == <<"On Time", "Minor Delay (<2 days)", "Moderate Delay (2-5 days)",
                 "Major Delay (>5 days)">>

StockBins == <<F(0), <<1, 2>>, <<4, 5>>, <<6, 5>>, PosInf>>
StockLabels == <<"Critical", "Low", "Normal", "Excess">>

\* Issue categories in sort order: a feedback row holds the index of its
\* category (0 for a null cell).
CategoryNames == <<"Damaged", "Late", "Wrong Item">>

\* The most frequent category that comes first in the group's rows, in place
\* of the first of the sorted modes.
IssueMode_FirstSeen(cats) ==
    LET vals == {cats[i] : i \in 1..Len(cats)} \ {0}
        Count(c) == Cardinality({i \in 1..Len(cats) : cats[i] = c})
        modes == {c \in vals : \A d \in vals : Count(d) <= Count(c)}
        first == {i \in 1..Len(cats) : cats[i] \in modes /\ \A j \in 1..(i - 1) : cats[j] \notin modes}
    IN IF modes = {} THEN "None"
       ELSE CategoryNames[cats[CHOOSE i \in first : TRUE]]

\* Series.mode()[0] of a group's categories, or 'None' when mode() is
\* empty: mode() drops nulls and returns the most frequent values sorted.
IssueMode(cats) ==
    LET vals == {cats[i] : i \in 1..Len(cats)} \ {0}
        Count(c) == Cardinality({i \in 1..Len(cats) : cats[i] = c})
        modes == {c \in vals : \A d \in vals : Count(d) <= Count(c)}
    IN IF modes = {} THEN "None"
       ELSE CategoryNames[Sorted(modes)[1]]

\* feedback.groupby('Order_ID').agg(...).reset_index(): one row per key, keys
\* ascending.
FeedbackAgg(feedback) ==
    LET keys == Sorted({feedback[i].Order_ID : i \in 1..Len(feedback)})
        Group(k) == SelectSeq(feedback, LAMBDA r : r.Order_ID = k)
    IN [i \in 1..Len(keys) |->
          [Order_ID |-> keys[i],
           Rating |-> Mean(Column(Group(keys[i]), "Rating")),
           Issue_Category |-> IssueMode(Column(Group(keys[i]), "Issue_Category"))]]

\* --------------------------------------------------------------- load_data
\* The seven files in the order load_data reads them.
FileNames == <<"orders.csv", "delivery_performance.csv", "routes_distance.csv",
               "vehicle_fleet.csv", "warehouse_inventory.csv",
               "customer_feedback.csv", "cost_breakdown.csv">>
FileSet == {FileNames[i] : i \in 1..Len(FileNames)}

\* The tables joined on Order_ID, in the order the joins reach them, and the
\* two date columns in the order they are parsed.
JoinTables == <<"orders", "delivery", "routes", "costs", "feedback">>
JoinSet == {JoinTables[i] : i \in 1..Len(JoinTables)}
DateColumns == <<"Order_Date", "Last_Restocked_Date">>
DateSet == {DateColumns[i] : i \in 1..Len(DateColumns)}

cost_columns == <<"Fuel_Cost", "Labor_Cost", "Vehicle_Maintenance", "Insurance",
                  "Packaging_Cost", "Technology_Platform_Fee", "Other_Overhead">>

\* The null right-hand columns a left join gives an unmatched row.
NullDelivery == [Actual_Delivery_Days |-> NaN]
NullRoute == [Route |-> 0, Distance_KM |-> NaN, Carrier |-> "NaN"]
NullCosts == [c \in {cost_columns[i] : i \in 1..Len(cost_columns)} |-> NaN]
NullFeedback == [Rating |-> NaN, Issue_Category |-> "NaN"]

\* The series without .replace(0, np.nan)
ReplaceZero_Keep(x) == x

\* Series.replace(0, np.nan)
ReplaceZero(x) == IF x = F(0) THEN NaN ELSE x

\* The four merges of load_data.
MergeAll(t) ==
    LeftMerge(
        LeftMerge(
            LeftMerge(
                LeftMerge(t.orders, t.delivery, NullDelivery),
                t.routes, NullRoute),
            t.costs, NullCosts),
        FeedbackAgg(t.feedback), NullFeedback)

\* The derived columns of one merged row.
DeriveRow(r) ==
    LET delay == Sub(r.Actual_Delivery_Days, r.Promised_Delivery_Days)
        total == SumSkipNaN([i \in 1..Len(cost_columns) |-> r[cost_columns[i]]])
    IN r @@ [Delivery_Delay_Days |-> delay,
             On_Time |-> Leq(delay, F(0)),
             Delay_Severity |-> PdCut(delay, DelayBins, DelayLabels),
             Total_Cost |-> total,
             Cost_per_KM |-> Div(total, ReplaceZero(r.Distance_KM)),
             Revenue_to_Cost_Ratio |-> Div(r.Order_Value_INR, ReplaceZero(total))]

\* The derived columns of one warehouse row.
DeriveStock(w) ==
    LET ratio == Div(w.Current_Stock_Units, w.Reorder_Level)
    IN w @@ [Stock_Ratio |-> ratio,
             Stock_Status |-> PdCut(ratio, StockBins, StockLabels)]

\* The derived column of one vehicle row.
DeriveVehicle(v) ==
    v @@ [Efficiency_Score |->
             Div(v.Fuel_Efficiency_KM_per_L, v.CO2_Emissions_Kg_per_KM)]

None == [tag |-> "None"]

\* LoadError without the KeyError of a join on a table that lacks Order_ID.
LoadError_NoKeyError(d) ==
    LET gone == {i \in 1..Len(FileNames) : FileNames[i] \in d.missing}
        bad == {i \in 1..Len(DateColumns) : DateColumns[i] \in d.badDates}
    IN IF ~d.folder THEN <<[kind |-> "Data folder not found", what |-> "data"]>>
       ELSE IF gone # {}
       THEN <<[kind |-> "File not found", what |-> FileNames[Sorted(gone)[1]]]>>
       ELSE IF bad # {}
       THEN <<[kind |-> "Error loading data", what |-> DateColumns[Sorted(bad)[1]]]>>
       ELSE <<>>

\* LoadError with pd.to_datetime(..., errors='coerce'): no date error.
LoadError_CoerceDates(d) ==
    LET gone == {i \in 1..Len(FileNames) : FileNames[i] \in d.missing}
    IN IF ~d.folder THEN <<[kind |-> "Data folder not found", what |-> "data"]>>
       ELSE IF gone # {}
       THEN <<[kind |-> "File not found", what |-> FileNames[Sorted(gone)[1]]]>>
       ELSE IF d.noKey # {}
       THEN <<[kind |-> "Error loading data", what |-> "Order_ID"]>>
       ELSE <<>>

\* The first failure load_data meets, as the error it reports, or <<>>.
\* d.folder: the data folder exists; d.missing: the files absent from it;
\* d.badDates: the date columns holding an unparsable value; d.noKey: the
\* tables without an Order_ID column.
LoadError(d) ==
    LET gone == {i \in 1..Len(FileNames) : FileNames[i] \in d.missing}
        bad == {i \in 1..Len(DateColumns) : DateColumns[i] \in d.badDates}
    IN IF ~d.folder THEN <<[kind |-> "Data folder not found", what |-> "data"]>>
       ELSE IF gone # {}
       THEN <<[kind |-> "File not found", what |-> FileNames[Sorted(gone)[1]]]>>
       ELSE IF bad # {}
       THEN <<[kind |-> "Error loading data", what |-> DateColumns[Sorted(bad)[1]]]>>
       ELSE IF d.noKey # {}
       THEN <<[kind |-> "Error loading data", what |-> "Order_ID"]>>
       ELSE <<>>

\* load_data(): the dictionary it returns, or None after reporting an error.
load_data(d, t) ==
    IF LoadError(d) # <<>> THEN None
    ELSE LET m == MergeAll(t)
         IN [tag |-> "data",
             orders |-> t.orders, delivery |-> t.delivery, routes |-> t.routes,
             costs |-> t.costs, feedback |-> t.feedback,
             vehicles |-> [i \in 1..Len(t.vehicles) |-> DeriveVehicle(t.vehicles[i])],
             warehouse |-> [i \in 1..Len(t.warehouse) |-> DeriveStock(t.warehouse[i])],
             merged |-> [i \in 1..Len(m) |-> DeriveRow(m[i])]]

\* ------------------------------------------------------------- show_alerts
CriticalCap == 3
SevereCap == 2
RouteCap == 3
LowRatingBelow == 3

\* nsmallest in place of nlargest.
RECURSIVE NLargest_Smallest(_, _)
NLargest_Smallest(n, entries) ==
    IF n = 0 \/ entries = <<>> THEN <<>>
    ELSE LET top == CHOOSE i \in 1..Len(entries) :
                       /\ \A j \in 1..Len(entries) : ~Less(entries[j].cost, entries[i].cost)
                       /\ \A j \in 1..(i - 1) : Less(entries[i].cost, entries[j].cost)
         IN <<entries[top]>>
            \o NLargest_Smallest(n - 1, SubSeq(entries, 1, top - 1)
                                        \o SubSeq(entries, top + 1, Len(entries)))

\* Series.nlargest(n) (keep='first'): the n largest entries, largest first,
\* equal values in their order in the series.
RECURSIVE NLargest(_, _)
NLargest(n, entries) ==
    IF n = 0 \/ entries = <<>> THEN <<>>
    ELSE LET top == CHOOSE i \in 1..Len(entries) :
                       /\ \A j \in 1..Len(entries) : ~Less(entries[i].cost, entries[j].cost)
                       /\ \A j \in 1..(i - 1) : Less(entries[j].cost, entries[i].cost)
         IN <<entries[top]>>
            \o NLargest(n - 1, SubSeq(entries, 1, top - 1)
                               \o SubSeq(entries, top + 1, Len(entries)))

\* merged.groupby('Route')['Total_Cost'].mean(): one entry per non-null
\* route, routes ascending.
RouteMeans(merged) ==
    LET keys == Sorted({merged[i].Route : i \in 1..Len(merged)} \ {0})
        Group(k) == SelectSeq(merged, LAMBDA r : r.Route = k)
    IN [i \in 1..Len(keys) |->
          [route |-> keys[i], cost |-> Mean(Column(Group(keys[i]), "Total_Cost"))]]

\* CriticalStockAlerts with the last rows (tail) instead of the first.
CriticalStockAlerts_Tail(warehouse) ==
    LET critical_stock == SelectSeq(warehouse, LAMBDA w : w.Stock_Status = "Critical")
        n == Len(critical_stock)
        shown == SubSeq(critical_stock, IF n > CriticalCap THEN n - CriticalCap + 1 ELSE 1, n)
    IN [i \in 1..Len(shown) |->
          [kind |-> "Critical Stock Alert",
           Product_Category |-> shown[i].Product_Category,
           Location |-> shown[i].Location,
           Current_Stock_Units |-> shown[i].Current_Stock_Units,
           Reorder_Level |-> shown[i].Reorder_Level]]

CriticalStockAlerts(warehouse) ==
    LET critical_stock == SelectSeq(warehouse, LAMBDA w : w.Stock_Status = "Critical")
        shown == PdHead(critical_stock, CriticalCap)
    IN [i \in 1..Len(shown) |->
          [kind |-> "Critical Stock Alert",
           Product_Category |-> shown[i].Product_Category,
           Location |-> shown[i].Location,
           Current_Stock_Units |-> shown[i].Current_Stock_Units,
           Reorder_Level |-> shown[i].Reorder_Level]]

\* SevereDelayAlerts under the cap of the critical-stock rule.
SevereDelayAlerts_WrongCap(merged) ==
    LET severe_delays == SelectSeq(merged,
                             LAMBDA r : r.Delay_Severity = "Major Delay (>5 days)")
        shown == PdHead(severe_delays, CriticalCap)
    IN [i \in 1..Len(shown) |->
          [kind |-> "Severe Delay Alert",
           Order_ID |-> shown[i].Order_ID,
           Delivery_Delay_Days |-> shown[i].Delivery_Delay_Days,
           Carrier |-> shown[i].Carrier]]

SevereDelayAlerts(merged) ==
    LET severe_delays == SelectSeq(merged,
                             LAMBDA r : r.Delay_Severity = "Major Delay (>5 days)")
        shown == PdHead(severe_delays, SevereCap)
    IN [i \in 1..Len(shown) |->
          [kind |-> "Severe Delay Alert",
           Order_ID |-> shown[i].Order_ID,
           Delivery_Delay_Days |-> shown[i].Delivery_Delay_Days,
           Carrier |-> shown[i].Carrier]]

\* LowRatingAlerts with <= in place of <: a rating of 3 counts as low.
LowRatingAlerts_Inclusive(merged) ==
    LET low_ratings == SelectSeq(merged, LAMBDA r : Leq(r.Rating, F(LowRatingBelow)))
    IN IF low_ratings = <<>> THEN <<>>
       ELSE <<[kind |-> "Low Rating Alert", alert_count |-> Len(low_ratings)]>>

LowRatingAlerts(merged) ==
    LET low_ratings == SelectSeq(merged, LAMBDA r : Less(r.Rating, F(LowRatingBelow)))
    IN IF low_ratings = <<>> THEN <<>>
       ELSE <<[kind |-> "Low Rating Alert", alert_count |-> Len(low_ratings)]>>

HighCostAlerts(merged) ==
    LET high_cost_routes == NLargest(RouteCap, RouteMeans(merged))
    IN [i \in 1..Len(high_cost_routes) |->
          [kind |-> "High Cost Route",
           route |-> high_cost_routes[i].route,
           cost |-> high_cost_routes[i].cost]]

\* show_alerts reading data['merged_filtered'] in place of data['merged']
show_alerts_Filtered(d) ==
    CriticalStockAlerts(d.warehouse) \o SevereDelayAlerts(d.merged_filtered)
        \o LowRatingAlerts(d.merged_filtered) \o HighCostAlerts(d.merged_filtered)

\* show_alerts(data): the four groups of alerts in display order
show_alerts(d) ==
    CriticalStockAlerts(d.warehouse) \o SevereDelayAlerts(d.merged)
        \o LowRatingAlerts(d.merged) \o HighCostAlerts(d.merged)

\* ------------------------------------------------------ create_kpi_metrics
create_kpi_metrics(d) ==
    LET merged == d.merged
        late == SelectSeq(merged, LAMBDA r : Less(F(0), r.Delivery_Delay_Days))
        on_time == SelectSeq(merged, LAMBDA r : r.On_Time)
    IN [on_time_rate |-> Div(F(100 * Len(on_time)), F(Len(merged))),
        avg_delay |-> Mean(Column(late, "Delivery_Delay_Days")),
        avg_rating |-> Mean(Column(merged, "Rating")),
        total_orders |-> Len(merged),
        total_revenue |-> SumSkipNaN(Column(merged, "Order_Value_INR")),
        total_cost |-> SumSkipNaN(Column(merged, "Total_Cost"))]

\* ------------------------------------------------------------------ filter
PriorityOptions == {"Express", "Standard", "Economy"}
DefaultShown == 3

\* The sidebar's selections: the widgets' defaults on a first run, the
\* user's selections (w.priorities, w.carriers, w.categories) otherwise.
Selection(w, merged) ==
    IF w.custom THEN [priorities |-> w.priorities, carriers |-> w.carriers,
                      categories |-> w.categories]
    ELSE LET carriers == Unique(SelectSeq(Column(merged, "Carrier"),
                                          LAMBDA c : c # "NaN"))
             categories == Unique(Column(merged, "Product_Category"))
             First(s) == {s[i] : i \in 1..Len(PdHead(s, DefaultShown))}
         IN [priorities |-> PriorityOptions, carriers |-> First(carriers),
             categories |-> First(categories)]

\* filtered_data: the rows of merged that pass every non-empty selection.
Filter(merged, sl) ==
    LET byPriority == IF sl.priorities = {} THEN merged
                      ELSE SelectSeq(merged, LAMBDA r : r.Priority \in sl.priorities)
        byCarrier == IF sl.carriers = {} THEN byPriority
                     ELSE SelectSeq(byPriority, LAMBDA r : r.Carrier \in sl.carriers)
    IN IF sl.categories = {} THEN byCarrier
       ELSE SelectSeq(byCarrier, LAMBDA r : r.Product_Category \in sl.categories)

\* data['merged'] = filtered_data in place of data['merged_filtered'] = ...
StoreFiltered_Overwrite(d, filtered) ==
    [merged_filtered |-> filtered] @@ [d EXCEPT !.merged = filtered]

\* main: data['merged_filtered'] = filtered_data
StoreFiltered(d, filtered) == [merged_filtered |-> filtered] @@ d

\* ---------------------------------------------------- create_visualizations
\* The values vehicles.groupby(key).agg({...: 'mean'}) gives one group.
VehicleTypes(vehicles) == {vehicles[i].Vehicle_Type : i \in 1..Len(vehicles)} \ {"NaN"}

\* create_visualizations, chart 5 (the charts over merged and warehouse are
\* not part of the model): the means of each vehicle type.
vehicle_efficiency(vehicles) ==
    [t \in VehicleTypes(vehicles) |->
        LET g == SelectSeq(vehicles, LAMBDA v : v.Vehicle_Type = t)
        IN [Efficiency_Score |-> Mean(Column(g, "Efficiency_Score")),
            Fuel_Efficiency_KM_per_L |-> Mean(Column(g, "Fuel_Efficiency_KM_per_L")),
            CO2_Emissions_Kg_per_KM |-> Mean(Column(g, "CO2_Emissions_Kg_per_KM"))]]

create_visualizations(d) == [vehicle_efficiency |-> vehicle_efficiency(d.vehicles)]

\* ------------------------------------------------------- main, tabs 2 and 3
RECURSIVE Pow10(_)
Pow10(k) == IF k = 0 THEN 1 ELSE 10 * Pow10(k - 1)

\* round(k): x to k decimals, a tie to the even neighbour.
Round(x, k) ==
    IF x[2] = 0 THEN x
    ELSE LET n == x[1] * Pow10(k)
             q == n \div x[2]
             r == n % x[2]
             up == 2 * r > x[2] \/ (2 * r = x[2] /\ q % 2 = 1)
         IN Norm(IF up THEN q + 1 ELSE q, Pow10(k))

\* Series.max() and Series.min(): over the non-null values, NaN without any.
MaxSkipNaN(s) ==
    LET vals == {s[i] : i \in 1..Len(s)} \ {NaN}
    IN IF vals = {} THEN NaN ELSE CHOOSE x \in vals : \A y \in vals : ~Less(x, y)
MinSkipNaN(s) ==
    LET vals == {s[i] : i \in 1..Len(s)} \ {NaN}
    IN IF vals = {} THEN NaN ELSE CHOOSE x \in vals : \A y \in vals : ~Less(y, x)

\* The mean of a boolean column.
MeanTrue(s) == Div(F(Len(SelectSeq(s, LAMBDA b : b))), F(Len(s)))

\* filtered_data.groupby('Carrier').agg(...).round(3), before formatting.
carrier_stats(rows) ==
    [c \in {rows[i].Carrier : i \in 1..Len(rows)} \ {"NaN"} |->
        LET g == SelectSeq(rows, LAMBDA r : r.Carrier = c)
        IN [On_Time |-> Round(MeanTrue(Column(g, "On_Time")), 3),
            Rating |-> Round(Mean(Column(g, "Rating")), 3),
            Total_Cost |-> Round(Mean(Column(g, "Total_Cost")), 3),
            Order_Count |-> Len(g)]]

\* filtered_data.groupby('Priority').agg(...).round(2)
priority_analysis(rows) ==
    [p \in {rows[i].Priority : i \in 1..Len(rows)} \ {"NaN"} |->
        LET g == SelectSeq(rows, LAMBDA r : r.Priority = p)
        IN [Delay_mean |-> Round(Mean(Column(g, "Delivery_Delay_Days")), 2),
            Delay_max |-> Round(MaxSkipNaN(Column(g, "Delivery_Delay_Days")), 2),
            Delay_min |-> Round(MinSkipNaN(Column(g, "Delivery_Delay_Days")), 2),
            Total_Cost |-> Round(Mean(Column(g, "Total_Cost")), 2),
            Rating |-> Round(Mean(Column(g, "Rating")), 2)]]

\* DataFrame.nlargest(n, column) (keep='first') by an integer column.
RECURSIVE NLargestBy(_, _, _)
NLargestBy(n, rows, col) ==
    IF n = 0 \/ rows = <<>> THEN <<>>
    ELSE LET top == CHOOSE i \in 1..Len(rows) :
                       /\ \A j \in 1..Len(rows) : rows[j][col] <= rows[i][col]
                       /\ \A j \in 1..(i - 1) : rows[j][col] < rows[i][col]
         IN <<rows[top]>>
            \o NLargestBy(n - 1, SubSeq(rows, 1, top - 1)
                                 \o SubSeq(rows, top + 1, Len(rows)), col)

RouteTableRows == 10
CostDetailRows == 20

\* filtered_data.groupby('Route').agg(...).nlargest(10, 'Order_Count')
route_analysis(rows) ==
    LET keys == Sorted({rows[i].Route : i \in 1..Len(rows)} \ {0})
        Group(k) == SelectSeq(rows, LAMBDA r : r.Route = k)
    IN NLargestBy(RouteTableRows,
                  [i \in 1..Len(keys) |->
                      [Route |-> keys[i],
                       Delivery_Delay_Days |-> Mean(Column(Group(keys[i]), "Delivery_Delay_Days")),
                       Total_Cost |-> Mean(Column(Group(keys[i]), "Total_Cost")),
                       Distance_KM |-> Mean(Column(Group(keys[i]), "Distance_KM")),
                       Order_Count |-> Len(Group(keys[i]))]],
                  "Order_Count")

\* filtered_data[[...]].head(20)
cost_details(rows) ==
    LET shown == PdHead(rows, CostDetailRows)
    IN [i \in 1..Len(shown) |->
          [c \in {"Order_ID", "Priority", "Carrier", "Route", "Total_Cost", "Fuel_Cost",
                  "Labor_Cost", "Vehicle_Maintenance"} |-> shown[i][c]]]

\* The tables of tabs 2 and 3.
Tabs(rows) ==
    [carrier_stats |-> carrier_stats(rows), priority_analysis |-> priority_analysis(rows),
     route_analysis |-> route_analysis(rows), cost_details |-> cost_details(rows)]

\* ------------------------------------------------------------------- state
VARIABLES
    disk,           \* the data folder: see LoadError
    tables,         \* the contents of the input files
    widgets,        \* the sidebar's widget state at the start of the run
    pc,             \* main's position
    data,           \* main's data: None or the dictionary load_data returned
    errors,         \* the errors reported to the operator (st.error)
    filtered_data,  \* main's filtered_data
    kpis,           \* the values create_kpi_metrics rendered
    alerts,         \* the alerts main rendered
    cache,          \* st.cache_data's entry for load_data
    viz,            \* what create_visualizations returned
    summaries       \* the tables of tabs 2 and 3
\* filtered_data, kpis, alerts, viz and summaries hold what the latest run
\* that reached them produced: a rerun leaves them until it replaces them.

vars == <<disk, tables, widgets, pc, data, errors, filtered_data, kpis, alerts,
          cache, viz, summaries>>

Unset == [tag |-> "unset"]

\* main: data = load_data()
\* (@st.cache_data: the first call runs load_data and stores what it
\* returned, a later call gets a copy of the stored value.)
MainLoad ==
    /\ pc = "start"
    /\ IF cache = Unset
       THEN /\ data' = load_data(disk, tables)
            /\ errors' = errors \o LoadError(disk)
       ELSE /\ data' = cache
            /\ UNCHANGED errors
    /\ cache' = data'
    /\ pc' = "loaded"
    /\ UNCHANGED <<disk, tables, widgets, filtered_data, kpis, alerts, viz, summaries>>

\* main: if data is None: st.error(...); return
MainReturn ==
    /\ pc = "loaded"
    /\ data = None
    /\ errors' = Append(errors, [kind |-> "Failed to load data", what |-> "data"])
    /\ pc' = "returned"
    /\ UNCHANGED <<disk, tables, widgets, data, filtered_data, kpis, alerts,
                   cache, viz, summaries>>

\* main: the sidebar and the filter of data['merged']
MainFilter ==
    /\ pc = "loaded"
    /\ data # None
    /\ filtered_data' = Filter(data.merged, Selection(widgets, data.merged))
    /\ data' = StoreFiltered(data, filtered_data')
    /\ pc' = "filtered"
    /\ UNCHANGED <<disk, tables, widgets, errors, kpis, alerts, cache, viz, summaries>>

\* main, tab 1: create_kpi_metrics(data)
MainKpis ==
    /\ pc = "filtered"
    /\ kpis' = create_kpi_metrics(data)
    /\ pc' = "kpis"
    /\ UNCHANGED <<disk, tables, widgets, data, errors, filtered_data, alerts,
                   cache, viz, summaries>>

\* main, tab 1: alerts = show_alerts(data)
MainAlerts ==
    /\ pc = "kpis"
    /\ alerts' = show_alerts(data)
    /\ pc' = "alerts"
    /\ UNCHANGED <<disk, tables, widgets, data, errors, filtered_data, kpis,
                   cache, viz, summaries>>

\* main, tab 1: viz = create_visualizations(data)
MainVisualizations ==
    /\ pc = "alerts"
    /\ viz' = create_visualizations(data)
    /\ pc' = "visualized"
    /\ UNCHANGED <<disk, tables, widgets, data, errors, filtered_data, kpis, alerts,
                   cache, summaries>>

\* main, tabs 2 and 3: the tables over filtered_data; the run ends.
MainTabs ==
    /\ pc = "visualized"
    /\ summaries' = Tabs(filtered_data)
    /\ pc' = "done"
    /\ UNCHANGED <<disk, tables, widgets, data, errors, filtered_data, kpis, alerts,
                   cache, viz>>

\* One run of main.
Next ==
    MainLoad \/ MainReturn \/ MainFilter \/ MainKpis \/ MainAlerts
        \/ MainVisualizations \/ MainTabs

\* The options of the carrier and product category multiselects.
CarrierOptions(merged) ==
    {merged[i].Carrier : i \in 1..Len(merged)} \ {"NaN"}
CategoryOptions(merged) == {merged[i].Product_Category : i \in 1..Len(merged)}

\* The user changes the sidebar's selections after a run: the script runs
\* again from the top with the new widget state.
Rerun ==
    /\ pc = "done"
    /\ \E p \in SUBSET PriorityOptions, c \in SUBSET CarrierOptions(data.merged),
          k \in SUBSET CategoryOptions(data.merged) :
          widgets' = [custom |-> TRUE, priorities |-> p, carriers |-> c, categories |-> k]
    /\ pc' = "start"
    /\ data' = None
    /\ UNCHANGED <<disk, tables, errors, filtered_data, kpis, alerts, cache, viz, summaries>>

\* A session: runs of main, and reruns after a change of the selections.
NextSession == Next \/ Rerun

\* ------------------------------------------------------------ input tables
OrderRow(id, promised) ==
    [Order_ID |-> id, Priority |-> "Standard", Product_Category |-> "Electronics",
     Order_Value_INR |-> F(1000), Promised_Delivery_Days |-> promised]
DeliveryRow(id, actual) == [Order_ID |-> id, Actual_Delivery_Days |-> actual]
RouteRow(id, route) ==
    [Order_ID |-> id, Route |-> route, Distance_KM |-> F(100), Carrier |-> "SpeedyLogistics"]
CostRow(id, fuel) ==
    [Order_ID |-> id, Fuel_Cost |-> F(fuel), Labor_Cost |-> F(50),
     Vehicle_Maintenance |-> F(0), Insurance |-> F(0), Packaging_Cost |-> F(0),
     Technology_Platform_Fee |-> F(0), Other_Overhead |-> F(0)]
VehicleRow(type, fuel, co2) ==
    [Vehicle_Type |-> type, Fuel_Efficiency_KM_per_L |-> F(fuel),
     CO2_Emissions_Kg_per_KM |-> F(co2)]
FeedbackRow(id, rating, cat) == [Order_ID |-> id, Rating |-> rating, Issue_Category |-> cat]
StockRow(loc, current, reorder) ==
    [Product_Category |-> "Electronics", Location |-> loc,
     Current_Stock_Units |-> F(current), Reorder_Level |-> F(reorder)]

\* n orders, Order_ID 1..n, each promised in 2 days.
Orders(n) == [i \in 1..n |-> OrderRow(i, F(2))]

NoTables ==
    [orders |-> <<>>, delivery |-> <<>>, routes |-> <<>>, costs |-> <<>>,
     feedback |-> <<>>, warehouse |-> <<>>, vehicles |-> <<>>]

SampleTables ==
    [orders |-> Orders(1), delivery |-> <<DeliveryRow(1, F(9))>>,
     routes |-> <<RouteRow(1, 1)>>, costs |-> <<CostRow(1, 100)>>,
     feedback |-> <<FeedbackRow(1, F(2), 1)>>, warehouse |-> <<StockRow(1, 3, 10)>>,
     vehicles |-> <<VehicleRow("Truck", 10, 2)>>]

OkDisk == [folder |-> TRUE, missing |-> {}, badDates |-> {}, noKey |-> {}]
NoFolder == [folder |-> FALSE, missing |-> {}, badDates |-> {}, noKey |-> {}]
FirstRun == [custom |-> FALSE, priorities |-> {}, carriers |-> {}, categories |-> {}]

Start(d, t) ==
    /\ disk = d
    /\ tables = t
    /\ widgets = FirstRun
    /\ pc = "start"
    /\ data = None
    /\ errors = <<>>
    /\ filtered_data = <<>>
    /\ kpis = None
    /\ alerts = <<>>
    /\ cache = Unset
    /\ viz = None
    /\ summaries = None

SubsetsUpTo(S, n) == {x \in SUBSET S : Cardinality(x) <= n}

\* Fault scenarios: any folder state over the sample tables.
DiskStates ==
    [folder : BOOLEAN, missing : SubsetsUpTo(FileSet, MaxFaults),
     badDates : SubsetsUpTo(DateSet, MaxFaults), noKey : SubsetsUpTo(JoinSet, MaxFaults)]

Init == \E d \in DiskStates : Start(d, SampleTables)

Spec == Init /\ [][Next]_vars

\* Each scenario family below also holds the run without a data folder.

\* Join scenarios: up to MaxJoinOrders orders; delivery, routes and costs
\* tables that hold zero, one or several rows per order; one feedback row
\* or none.
JoinIds == 1..MaxJoinOrders

InitJoin ==
    \/ \E n \in 0..MaxJoinOrders,
          dl \in SeqsUpTo({DeliveryRow(i, F(3)) : i \in JoinIds}, MaxJoinRows),
          rt \in SeqsUpTo({RouteRow(i, 1) : i \in JoinIds}, MaxJoinRows),
          cs \in SeqsUpTo({CostRow(i, 100) : i \in JoinIds}, MaxJoinRows),
          fb \in SeqsUpTo({FeedbackRow(1, F(4), 1)}, 1) :
             Start(OkDisk, [orders |-> Orders(n), delivery |-> dl, routes |-> rt,
                            costs |-> cs, feedback |-> fb, warehouse |-> <<>>,
                            vehicles |-> <<>>])
    \/ Start(NoFolder, SampleTables)

SpecJoin == InitJoin /\ [][Next]_vars

\* Stock scenarios: warehouse rows with any stock count up to MaxStock over
\* a reorder level of 0, 5 or 10.
ReorderLevels == {0, 5, 10}

InitStock ==
    \/ \E n \in 0..MaxStockRows :
          \E cur \in [1..n -> 0..MaxStock], re \in [1..n -> ReorderLevels] :
             Start(OkDisk,
                   [NoTables EXCEPT
                      !.warehouse = [i \in 1..n |-> StockRow(i, cur[i], re[i])]])
    \/ Start(NoFolder, SampleTables)

SpecStock == InitStock /\ [][Next]_vars

\* Alert-cap scenarios: warehouse rows that are critical (3 of 10) or not
\* (10 of 10), and orders delivered on time (2 days) or a week late (9).
InitCaps ==
    \/ \E n \in 0..MaxCapRows, m \in 0..MaxCapOrders :
          \E cur \in [1..n -> {3, 10}], act \in [1..m -> {2, 9}] :
             Start(OkDisk,
                   [NoTables EXCEPT
                      !.warehouse = [i \in 1..n |-> StockRow(i, cur[i], 10)],
                      !.orders = Orders(m),
                      !.delivery = [i \in 1..m |-> DeliveryRow(i, F(act[i]))]])
    \/ Start(NoFolder, SampleTables)

SpecCaps == InitCaps /\ [][Next]_vars

\* Delay scenarios: orders promised in 2 or 3 days, delivered in 0..MaxDays
\* days, with a null delivery time (-1 below), or without a delivery row (-2).
InitDelay ==
    \/ \E n \in 0..MaxDelayOrders :
          \E pr \in [1..n -> {2, 3}], act \in [1..n -> -2..MaxDays] :
             Start(OkDisk,
                   [NoTables EXCEPT
                      !.orders = [i \in 1..n |-> OrderRow(i, F(pr[i]))],
                      !.delivery = SelectSeq(
                          [i \in 1..n |->
                              DeliveryRow(i, IF act[i] = -1 THEN NaN ELSE F(act[i]))],
                          LAMBDA r : act[r.Order_ID] # -2)])
    \/ Start(NoFolder, SampleTables)

SpecDelay == InitDelay /\ [][Next]_vars

\* Route scenarios: each order at a fuel cost of 100 or 200 and either on
\* one of the routes of RouteCodes, or (second family) on route 1 or with a
\* null route cell (0), or (third family) without a route row (-1 below).
RouteCodes == 1..4

InitRoutes ==
    \/ \E n \in 0..MaxRouteOrders :
          \E rt \in [1..n -> RouteCodes] \cup [1..n -> {0, 1}] \cup [1..n -> {-1}],
             fuel \in [1..n -> {100, 200}] :
             Start(OkDisk,
                   [NoTables EXCEPT
                      !.orders = Orders(n),
                      !.routes = SelectSeq([i \in 1..n |-> RouteRow(i, rt[i])],
                                           LAMBDA r : r.Route # -1),
                      !.costs = [i \in 1..n |-> CostRow(i, fuel[i])]])
    \/ Start(NoFolder, SampleTables)

SpecRoutes == InitRoutes /\ [][Next]_vars

\* Rating scenarios: MaxRatingOrders orders and up to MaxFeedback feedback
\* rows, each about any of the orders, rating it 2, 3 or 4 or not at all.
Ratings == {NaN, F(2), F(3), F(4)}

InitRatings ==
    \/ \E fb \in SeqsUpTo({FeedbackRow(i, r, 1) : i \in 1..MaxRatingOrders, r \in Ratings},
                          MaxFeedback) :
          Start(OkDisk, [NoTables EXCEPT !.orders = Orders(MaxRatingOrders),
                                         !.feedback = fb])
    \/ Start(NoFolder, SampleTables)

SpecRatings == InitRatings /\ [][Next]_vars

\* Issue-category scenarios: feedback rows of the orders with a null category
\* (0) or one of the three categories, in every row order.
InitIssues ==
    \/ \E fb \in SeqsUpTo({FeedbackRow(i, F(4), c) :
                               i \in 1..MaxIssueOrders, c \in 0..Len(CategoryNames)},
                          MaxIssueRows) :
          Start(OkDisk, [NoTables EXCEPT !.orders = Orders(MaxIssueOrders),
                                         !.feedback = fb])
    \/ Start(NoFolder, SampleTables)

SpecIssues == InitIssues /\ [][Next]_vars

\* Fleet scenarios: trucks and vans with a fuel efficiency of 0 or 10 km/l
\* and emissions of 0 or 2 kg/km.
InitVehicles ==
    \/ \E vs \in SeqsUpTo({VehicleRow(t, f, c) :
                               t \in {"Truck", "Van"}, f \in {0, 10}, c \in {0, 2}},
                          MaxVehicles) :
          Start(OkDisk, [NoTables EXCEPT !.orders = Orders(1), !.vehicles = vs])
    \/ Start(NoFolder, SampleTables)

SpecVehicles == InitVehicles /\ [][Next]_vars

\* Cost-ratio scenarios: orders worth 0 or 1000, with a route of 0 or 40 km
\* or no route row (-1), and a cost row that is all zero, has fuel 60, has
\* fuel 60 and overhead -60 (a total of 0), or no cost row (-1).
InitRatio ==
    \/ \E n \in 0..MaxRatioOrders :
          \E val \in [1..n -> {0, 1000}], dist \in [1..n -> {-1, 0, 40}],
             cost \in [1..n -> {-1, 0, 1, 2}] :
             Start(OkDisk,
                   [NoTables EXCEPT
                      !.orders = [i \in 1..n |->
                                     [OrderRow(i, F(2)) EXCEPT !.Order_Value_INR = F(val[i])]],
                      !.routes = SelectSeq(
                          [i \in 1..n |->
                              [RouteRow(i, i) EXCEPT !.Distance_KM = F(dist[i])]],
                          LAMBDA r : dist[r.Order_ID] # -1),
                      !.costs = SelectSeq(
                          [i \in 1..n |->
                              [CostRow(i, IF cost[i] = 0 THEN 0 ELSE 60) EXCEPT
                                  !.Labor_Cost = F(0),
                                  !.Other_Overhead = F(IF cost[i] = 2 THEN -60 ELSE 0)]],
                          LAMBDA r : cost[r.Order_ID] # -1)])
    \/ Start(NoFolder, SampleTables)

SpecRatio == InitRatio /\ [][Next]_vars

\* Filter scenarios: orders of priority Express or Standard and category
\* Electronics or Fashion, each a week late, the first k of them carried by
\* SpeedyLogistics and the others without a route row; the session reruns
\* main after every change of the selections.
InitFilter ==
    \/ \E n \in 0..MaxFilterOrders :
          \E pr \in [1..n -> {"Express", "Standard"}],
             cat \in [1..n -> {"Electronics", "Fashion"}],
             k \in 0..n :
             Start(OkDisk,
                   [NoTables EXCEPT
                      !.orders = [i \in 1..n |->
                                     [OrderRow(i, F(2)) EXCEPT !.Priority = pr[i],
                                                               !.Product_Category = cat[i]]],
                      !.delivery = [i \in 1..n |-> DeliveryRow(i, F(9))],
                      !.routes = [i \in 1..k |-> RouteRow(i, i)],
                      !.costs = [i \in 1..n |-> CostRow(i, 100 * i)]])
    \/ Start(NoFolder, SampleTables)

SpecFilter == InitFilter /\ [][NextSession]_vars

\* ------------------------------------------------------------------ claims
Loaded == pc # "start" /\ data # None
Faulty(d) == ~d.folder \/ d.missing # {} \/ d.noKey # {}
Min(a, b) == IF a < b THEN a ELSE b
AlertsOf(kind) == SelectSeq(alerts, LAMBDA a : a.kind = kind)

\* C1: the unified set has exactly one row per order: as many rows as the
\* Orders input, no Order_ID twice, and the Order_IDs of the Orders input.
C1_OneRowPerOrder ==
    Loaded =>
        /\ Len(data.merged) = Len(tables.orders)
        /\ \A i, j \in 1..Len(data.merged) :
              data.merged[i].Order_ID = data.merged[j].Order_ID => i = j
        /\ {data.merged[i].Order_ID : i \in 1..Len(data.merged)}
              = {tables.orders[i].Order_ID : i \in 1..Len(tables.orders)}

\* C9: after a missing data folder, a missing file or a missing join key,
\* load_data has reported an error and returned None, and main is at its
\* early return at most: nothing downstream has been computed.
C9_LoadFailureHalts ==
    Faulty(disk) =>
        /\ data = None
        /\ pc \in {"start", "loaded", "returned"}
        /\ pc # "start" => errors # <<>>
        /\ filtered_data = <<>> /\ kpis = None /\ alerts = <<>>
        /\ viz = None /\ summaries = None

C9_Witness ==
    /\ pc = "returned"
    /\ disk.folder /\ disk.missing = {"customer_feedback.csv"}
    /\ errors[1] = [kind |-> "File not found", what |-> "customer_feedback.csv"]

\* C10 as stated: with nothing wrong but an unparsable date value, load_data
\* still returns the record sets.
C10_BadDateDoesNotAbort ==
    (pc # "start" /\ disk.badDates # {} /\ ~Faulty(disk)) => data # None

\* C10 as amended: an unparsable date value aborts the whole load: load_data
\* returns None, and when nothing fails before the date parse the error it
\* reports names the first unparsable date column; main then returns early.
C10_BadDateAbortsLoad ==
    (pc # "start" /\ disk.badDates # {}) =>
        /\ data = None
        /\ pc \in {"loaded", "returned"}
        /\ (disk.folder /\ disk.missing = {}) =>
              /\ errors[1].kind = "Error loading data"
              /\ errors[1].what \in disk.badDates

C10_Witness ==
    /\ pc = "returned"
    /\ disk.badDates = {"Last_Restocked_Date"}
    /\ ~Faulty(disk)
    /\ data = None

\* The stock count and the reorder level of a warehouse row, as integers.
Stock(w) == w.Current_Stock_Units[1]
Reorder(w) == w.Reorder_Level[1]
\* The stock ratio of w is exactly n/d.
RatioIs(w, n, d) == Reorder(w) > 0 /\ Stock(w) * d = n * Reorder(w)

\* C2 as stated: a stock ratio of exactly 0.5 is Low, exactly 0.8 is Normal,
\* exactly 1.2 is Excess.
C2_EdgesInUpperBin ==
    Loaded => \A i \in 1..Len(data.warehouse) :
        LET w == data.warehouse[i]
        IN /\ RatioIs(w, 1, 2) => w.Stock_Status = "Low"
           /\ RatioIs(w, 4, 5) => w.Stock_Status = "Normal"
           /\ RatioIs(w, 6, 5) => w.Stock_Status = "Excess"

\* C2 as amended: a bin edge belongs to the lower bin: a stock ratio of
\* exactly 0.5 is Critical, exactly 0.8 is Low, exactly 1.2 is Normal.
C2_EdgesInLowerBin ==
    Loaded => \A i \in 1..Len(data.warehouse) :
        LET w == data.warehouse[i]
        IN /\ RatioIs(w, 1, 2) => w.Stock_Status = "Critical"
           /\ RatioIs(w, 4, 5) => w.Stock_Status = "Low"
           /\ RatioIs(w, 6, 5) => w.Stock_Status = "Normal"

C2_Witness ==
    /\ Loaded
    /\ \E i \in 1..Len(data.warehouse) :
          /\ RatioIs(data.warehouse[i], 1, 2)
          /\ Reorder(data.warehouse[i]) = 10
          /\ data.warehouse[i].Stock_Status = "Critical"

\* C4: every warehouse record (with a positive reorder level) has one of the
\* four stock statuses, and is Critical when its stock ratio is at most 0.5,
\* a record without any stock included.
C4_AtMostHalfIsCritical ==
    Loaded => \A i \in 1..Len(data.warehouse) :
        LET w == data.warehouse[i]
        IN Reorder(w) > 0 =>
              /\ w.Stock_Status \in {"Critical", "Low", "Normal", "Excess"}
              /\ 2 * Stock(w) <= Reorder(w) => w.Stock_Status = "Critical"

\* The critical warehouse records, as their positions in warehouse order.
CriticalRows == {i \in 1..Len(data.warehouse) : data.warehouse[i].Stock_Status = "Critical"}

\* C5: show_alerts emits min(n, 3) critical-stock alerts for n Critical
\* records, and the k-th describes the k-th Critical record in warehouse
\* order.
C5_CriticalStockCapped ==
    pc = "alerts" =>
        LET shown == AlertsOf("Critical Stock Alert")
            rows == Sorted(CriticalRows)
        IN /\ Len(shown) = Min(Len(rows), 3)
           /\ \A k \in 1..Len(shown) :
                 /\ shown[k].Location = data.warehouse[rows[k]].Location
                 /\ shown[k].Current_Stock_Units = data.warehouse[rows[k]].Current_Stock_Units
                 /\ shown[k].Reorder_Level = data.warehouse[rows[k]].Reorder_Level
                 /\ shown[k].Product_Category = data.warehouse[rows[k]].Product_Category

C5_Witness ==
    /\ pc = "alerts"
    /\ Cardinality(CriticalRows) = 5
    /\ Len(AlertsOf("Critical Stock Alert")) = 3

\* The unified records with a major delay, as positions in the unified set.
MajorRows == {i \in 1..Len(data.merged) :
                 data.merged[i].Delay_Severity = "Major Delay (>5 days)"}

\* C6: show_alerts emits min(m, 2) severe-delay alerts for m records with a
\* major delay, the k-th for the k-th such record of the unified set; none
\* when there is none, whatever the other rules emit.
C6_SevereDelayCapped ==
    pc = "alerts" =>
        LET shown == AlertsOf("Severe Delay Alert")
            rows == Sorted(MajorRows)
        IN /\ Len(shown) = Min(Len(rows), 2)
           /\ \A k \in 1..Len(shown) :
                 /\ shown[k].Order_ID = data.merged[rows[k]].Order_ID
                 /\ shown[k].Delivery_Delay_Days = data.merged[rows[k]].Delivery_Delay_Days

C6_Witness ==
    /\ pc = "alerts"
    /\ Cardinality(MajorRows) = 3
    /\ data.merged[1].Delay_Severity = "On Time"
    /\ Len(AlertsOf("Severe Delay Alert")) = 2
    /\ AlertsOf("Critical Stock Alert") # <<>>

\* The delay of a unified record in whole days, when both of its delivery
\* times are present.
HasDelay(r) == ~IsNaN(r.Actual_Delivery_Days) /\ ~IsNaN(r.Promised_Delivery_Days)
DelayDays(r) == r.Actual_Delivery_Days[1] - r.Promised_Delivery_Days[1]

\* C3: every unified record with a defined delay has exactly one of the four
\* severity labels (Delay_Severity holds one label, which is one of the
\* four): On Time for a delay <= 0, Minor for exactly 2, Moderate for
\* exactly 5, Major for any delay > 5.
C3_DelayBuckets ==
    Loaded => \A i \in 1..Len(data.merged) :
        LET r == data.merged[i]
        IN HasDelay(r) =>
              /\ r.Delay_Severity \in {DelayLabels[k] : k \in 1..Len(DelayLabels)}
              /\ DelayDays(r) <= 0 => r.Delay_Severity = "On Time"
              /\ DelayDays(r) = 2 => r.Delay_Severity = "Minor Delay (<2 days)"
              /\ DelayDays(r) = 5 => r.Delay_Severity = "Moderate Delay (2-5 days)"
              /\ DelayDays(r) > 5 => r.Delay_Severity = "Major Delay (>5 days)"

C3_Witness ==
    /\ Loaded
    /\ Len(data.merged) = 2
    /\ HasDelay(data.merged[1]) /\ DelayDays(data.merged[1]) = 5
    /\ data.merged[1].Delay_Severity = "Moderate Delay (2-5 days)"
    /\ HasDelay(data.merged[2]) /\ DelayDays(data.merged[2]) = 2
    /\ data.merged[2].Delay_Severity = "Minor Delay (<2 days)"

\* The routes of the unified set, and the mean Total_Cost of a route as the
\* pair <<sum of the costs, number of records>>.
RoutesOf(merged) == {merged[i].Route : i \in 1..Len(merged)} \ {0}
RECURSIVE CostSum(_, _)
CostSum(merged, route) ==
    IF merged = <<>> THEN 0
    ELSE (IF Head(merged).Route = route THEN Head(merged).Total_Cost[1] ELSE 0)
         + CostSum(Tail(merged), route)
RouteCount(merged, route) == Cardinality({i \in 1..Len(merged) : merged[i].Route = route})
\* mean(a) <= mean(b)
MeanLeq(merged, a, b) ==
    CostSum(merged, a) * RouteCount(merged, b) <= CostSum(merged, b) * RouteCount(merged, a)

\* C7: show_alerts emits min(3, number of routes) high-cost-route alerts, for
\* distinct routes, each with the mean Total_Cost of its route, in descending
\* order of that mean, and no route left out has a larger mean than one
\* named; hence none only when there is no route.
C7_HighCostRoutes ==
    pc = "alerts" =>
        LET shown == AlertsOf("High Cost Route")
            m == data.merged
            named == {shown[k].route : k \in 1..Len(shown)}
        IN /\ Len(shown) = Min(3, Cardinality(RoutesOf(m)))
           /\ named \subseteq RoutesOf(m)
           /\ Cardinality(named) = Len(shown)
           /\ \A k \in 1..Len(shown) :
                 shown[k].cost[1] * RouteCount(m, shown[k].route)
                    = CostSum(m, shown[k].route) * shown[k].cost[2]
           /\ \A k \in 1..(Len(shown) - 1) : MeanLeq(m, shown[k + 1].route, shown[k].route)
           /\ \A r \in RoutesOf(m) \ named : \A q \in named : MeanLeq(m, r, q)
           /\ (shown = <<>>) <=> (RoutesOf(m) = {})

C7_Witness ==
    /\ pc = "alerts"
    /\ Cardinality(RoutesOf(data.merged)) = 4
    /\ Len(AlertsOf("High Cost Route")) = 3
    /\ \E r \in RoutesOf(data.merged) :
          /\ \A k \in 1..3 : AlertsOf("High Cost Route")[k].route # r
          /\ \A k \in 1..3 : ~MeanLeq(data.merged, AlertsOf("High Cost Route")[k].route, r)

\* The mean rating of a unified record is below 3.
RatedBelow3(r) == ~IsNaN(r.Rating) /\ r.Rating[1] < 3 * r.Rating[2]
LowRated == {i \in 1..Len(data.merged) : RatedBelow3(data.merged[i])}

\* C8: show_alerts emits one low-rating alert, carrying the number of
\* unified records rated below 3, when there is such a record, and none
\* otherwise; a rating of exactly 3 and a missing rating are not counted.
C8_LowRatingSummary ==
    pc = "alerts" =>
        LET shown == AlertsOf("Low Rating Alert")
        IN IF LowRated = {} THEN shown = <<>>
           ELSE /\ Len(shown) = 1
                /\ shown[1].alert_count = Cardinality(LowRated)

C8_Witness ==
    /\ pc = "alerts"
    /\ Len(tables.feedback) = 3
    /\ data.merged[1].Rating = F(3)
    /\ \E i \in 1..3 : tables.feedback[i].Rating = F(2) /\ tables.feedback[i].Order_ID = 1
    /\ LowRated = {2}
    /\ AlertsOf("Low Rating Alert") = <<[kind |-> "Low Rating Alert", alert_count |-> 1]>>

\* main is past its filter step.
Filtered == pc \in {"filtered", "kpis", "alerts", "visualized", "done"}
\* Row r passes the selections sl (an empty selection lets every row pass).
Passes(r, sl) ==
    /\ sl.priorities # {} => r.Priority \in sl.priorities
    /\ sl.carriers # {} => r.Carrier \in sl.carriers
    /\ sl.categories # {} => r.Product_Category \in sl.categories

\* C11: in every run of a session data['merged'] is the unified set that
\* load_data produced, and once main has filtered, filtered_data is exactly
\* the rows of it, in order, that pass the current selections.
C11_FilterLeavesBase ==
    /\ Loaded =>
          /\ data.merged = cache.merged
          /\ data.merged = load_data(disk, tables).merged
    /\ Filtered =>
          LET sl == Selection(widgets, data.merged)
              keep == Sorted({i \in 1..Len(data.merged) : Passes(data.merged[i], sl)})
          IN filtered_data = [k \in 1..Len(keep) |-> data.merged[keep[k]]]

C11_Witness ==
    /\ pc = "filtered"
    /\ widgets.custom
    /\ widgets.priorities = {"Express"} /\ widgets.carriers # {}
    /\ Len(data.merged) = 2
    /\ Len(filtered_data) = 1
    /\ Len(summaries.cost_details) = 2
    /\ data.merged = cache.merged

\* q is the quotient a / b of a finite a and a finite non-zero b, and null
\* when a or b is null.
IsQuotient(q, a, b) ==
    IF IsNaN(a) \/ IsNaN(b) THEN q = NaN
    ELSE q[2] > 0 /\ q[1] * b[1] * a[2] = a[1] * b[2] * q[2]

\* C12: in every row of the unified set Cost_per_KM is null when Distance_KM
\* is exactly 0 and Revenue_to_Cost_Ratio is null when Total_Cost is exactly
\* 0 (an order without a cost record included); otherwise they are the
\* quotients Total_Cost / Distance_KM and Order_Value_INR / Total_Cost.
C12_ZeroDenominatorsGiveNull ==
    Loaded =>
       \A i \in 1..Len(data.merged) :
          LET r == data.merged[i]
          IN /\ IF r.Distance_KM = F(0) THEN r.Cost_per_KM = NaN
                ELSE IsQuotient(r.Cost_per_KM, r.Total_Cost, r.Distance_KM)
             /\ IF r.Total_Cost = F(0) THEN r.Revenue_to_Cost_Ratio = NaN
                ELSE IsQuotient(r.Revenue_to_Cost_Ratio, r.Order_Value_INR, r.Total_Cost)
             /\ r.Fuel_Cost = NaN => r.Total_Cost = F(0)

C12_Witness ==
    /\ Loaded
    /\ Len(data.merged) = 2
    /\ LET a == data.merged[1]
           b == data.merged[2]
       IN /\ a.Distance_KM = F(0) /\ a.Total_Cost = F(60) /\ a.Cost_per_KM = NaN
          /\ a.Revenue_to_Cost_Ratio = <<50, 3>>
          /\ b.Fuel_Cost = NaN /\ b.Order_Value_INR = F(1000)
          /\ b.Revenue_to_Cost_Ratio = NaN
          /\ b.Distance_KM = F(40) /\ b.Cost_per_KM = F(0)

\* The categories of the feedback rows of order id, in input row order.
IssuesOf(id) ==
    Column(SelectSeq(tables.feedback, LAMBDA r : r.Order_ID = id), "Issue_Category")
Freq(cs, c) == Cardinality({i \in 1..Len(cs) : cs[i] = c})
\* The non-null categories that no other category of cs outnumbers.
MostFrequent(cs) ==
    {c \in 1..Len(CategoryNames) :
        /\ Freq(cs, c) > 0
        /\ \A d \in 1..Len(CategoryNames) : Freq(cs, d) <= Freq(cs, c)}
MinOf(S) == CHOOSE x \in S : \A y \in S : x <= y
FirstIndex(cs, c) == MinOf({i \in 1..Len(cs) : cs[i] = c})
\* The unified set has one row per order, whose Issue_Category is null for an
\* order without feedback rows, "None" for one without a non-null category,
\* and else the most frequent category that Pick chooses.
IssueCategoryIs(Pick(_)) ==
    Loaded =>
       /\ Len(data.merged) = Len(tables.orders)
       /\ \A i \in 1..Len(data.merged) :
             LET cs == IssuesOf(data.merged[i].Order_ID)
                 got == data.merged[i].Issue_Category
             IN IF cs = <<>> THEN got = "NaN"
                ELSE IF MostFrequent(cs) = {} THEN got = "None"
                ELSE got = CategoryNames[Pick(cs)]
FirstSeen(cs) ==
    CHOOSE c \in MostFrequent(cs) :
        \A d \in MostFrequent(cs) : FirstIndex(cs, c) <= FirstIndex(cs, d)
SmallestName(cs) == CHOOSE c \in MostFrequent(cs) : \A d \in MostFrequent(cs) : c <= d

\* C13 as stated: every order with feedback rows gets its most frequent
\* non-null category, among equally frequent ones the one that comes first in
\* the input rows, and "None" when it has no non-null category.
C13_TiesToFirstSeen == IssueCategoryIs(FirstSeen)

\* C13 as the code has it: among equally frequent categories the one that
\* sorts first is taken, whatever the order of the rows.
C13_TiesToSmallestName == IssueCategoryIs(SmallestName)

C13_Witness ==
    /\ Loaded
    /\ Len(data.merged) = 2
    /\ IssuesOf(1) = <<3, 1>>
    /\ data.merged[1].Issue_Category = "Damaged"
    /\ IssuesOf(2) = <<0>>
    /\ data.merged[2].Issue_Category = "None"

\* The vehicles of type t that emit something.
Emitting(t) ==
    SelectSeq(tables.vehicles,
              LAMBDA v : v.Vehicle_Type = t /\ v.CO2_Emissions_Kg_per_KM # F(0))

\* C14: a vehicle whose CO2_Emissions_Kg_per_KM is exactly 0 has a null
\* Efficiency_Score, and the mean Efficiency_Score of a vehicle type is the
\* mean over its vehicles that emit something.
C14_ZeroEmissionsGiveNull ==
    Loaded =>
       /\ \A i \in 1..Len(data.vehicles) :
             data.vehicles[i].CO2_Emissions_Kg_per_KM = F(0)
                => data.vehicles[i].Efficiency_Score = NaN
       /\ viz # None =>
             \A t \in DOMAIN viz.vehicle_efficiency :
                LET g == Emitting(t)
                IN viz.vehicle_efficiency[t].Efficiency_Score =
                      Mean([i \in 1..Len(g) |->
                               Div(g[i].Fuel_Efficiency_KM_per_L,
                                   g[i].CO2_Emissions_Kg_per_KM)])

\* The rows of filtered_data with value v in column col.
FilteredWith(col, v) == SelectSeq(filtered_data, LAMBDA r : r[col] = v)
\* The tables of tabs 2 and 3 are those of the filtered rows: their carriers,
\* priorities and routes with the filtered rows' counts, and the filtered
\* rows' orders in the cost detail table.
SummariesOfFiltered ==
    /\ DOMAIN summaries.carrier_stats
          = {filtered_data[i].Carrier : i \in 1..Len(filtered_data)} \ {"NaN"}
    /\ \A c \in DOMAIN summaries.carrier_stats :
          summaries.carrier_stats[c].Order_Count = Len(FilteredWith("Carrier", c))
    /\ DOMAIN summaries.priority_analysis
          = {filtered_data[i].Priority : i \in 1..Len(filtered_data)}
    /\ {<<r.Route, r.Order_Count>> :
           r \in {summaries.route_analysis[i] : i \in 1..Len(summaries.route_analysis)}}
          = {<<filtered_data[i].Route, Len(FilteredWith("Route", filtered_data[i].Route))>> :
                i \in {j \in 1..Len(filtered_data) : filtered_data[j].Route # 0}}
    /\ Column(summaries.cost_details, "Order_ID") = Column(filtered_data, "Order_ID")
\* A rerun of main with changed selections computes the KPIs and the alerts
\* the run before it computed.
SameOverview ==
    /\ (widgets.custom /\ pc = "filtered" /\ pc' = "kpis") => kpis' = kpis
    /\ (widgets.custom /\ pc = "kpis" /\ pc' = "alerts") => alerts' = alerts

\* C15: whatever the selections of the filter panel, every run of a session
\* over the same loaded data computes the same KPIs and the same alerts (they
\* read the unfiltered unified set), while the carrier, priority and route
\* summaries and the cost detail table are those of the filtered rows.
C15_OverviewIgnoresFilter ==
    /\ [](pc = "done" => SummariesOfFiltered)
    /\ [][SameOverview]_vars

C15_Witness ==
    /\ pc = "done"
    /\ widgets.custom
    /\ Len(data.merged) = 2
    /\ Len(filtered_data) = 1
    /\ kpis.total_orders = 2
    /\ Len(AlertsOf("Severe Delay Alert")) = 2
    /\ Len(summaries.cost_details) = 1

====
